---- MODULE Spec2Model ----
(***************************************************************************)
(* A model of capital-lens' IPO service (server/src/services/ipo.py):      *)
(*   - get_ipo_summary and the process-wide _SUMMARY_CACHE (Spec),         *)
(*   - _summarize_with_llm and its post-processing (SpecSummarize),        *)
(*   - get_latest_ipos, _fetch_and_parse, _parse_html and                  *)
(*     _find_pdf_url_for_code on one page (SpecListing),                   *)
(*   - _parse_date (SpecDate).                                             *)
(* Strings are sequences of characters; a character is a one-word string.  *)
(* Time is counted in hours.                                               *)
(***************************************************************************)
EXTENDS Integers, Sequences, FiniteSets, TLC

VARIABLES
    clock,          \* wall clock read by datetime.now(tz=utc), in hours
    settings,       \* core.config.settings: AZ_OPENAI_ENDPOINT / AZ_OPENAI_API_KEY
    SUMMARY_CACHE,  \* _SUMMARY_CACHE: code -> (response, cached_at)
    req,            \* the get_ipo_summary coroutines, by request id
    writeLog,       \* history: per code, the ids of the requests that wrote its entry, in order
    summ,           \* one _summarize_with_llm call (SpecSummarize)
    listing,        \* one get_latest_ipos call and one locator call on its page (SpecListing)
    pdate           \* one _parse_date call (SpecDate)

vars == <<clock, settings, SUMMARY_CACHE, req, writeLog, summ, listing, pdate>>

(***************************************************************************)
(* Bounds of the model                                                     *)
(***************************************************************************)
MaxReq == 3
MaxTime == 36
HoursPerTick == 12
MaxContentLen == 4
MaxBulletLines == 9
MaxDateTokens == 2
MaxRows == 3

Codes == {"1234", "5678"}
ReqIds == 1..MaxReq

None == <<>>
Some(x) == <<x>>

(***************************************************************************)
(* Characters and strings                                                  *)
(***************************************************************************)
\* "dot" is the katakana middle dot, "bul" the bullet U+2022, "dash" is "-".
Glyphs == {"dot", "bul", "dash"}
Whitespace == {"sp", "nl"}
LineBreaks == {"nl"}

RECURSIVE LStripSet(_, _)
LStripSet(s, chars) ==
    IF s # <<>> /\ Head(s) \in chars THEN LStripSet(Tail(s), chars) ELSE s

RECURSIVE RStripSet(_, _)
RStripSet(s, chars) ==
    IF s # <<>> /\ s[Len(s)] \in chars
    THEN RStripSet(SubSeq(s, 1, Len(s) - 1), chars)
    ELSE s

\* str.strip()
Strip(s) == RStripSet(LStripSet(s, Whitespace), Whitespace)

\* str.startswith of one character
StartsWith(s, ch) == s # <<>> /\ Head(s) = ch

\* str.splitlines(): no empty last line after a trailing line break
RECURSIVE SplitLinesFrom(_, _, _)
SplitLinesFrom(s, cur, started) ==
    IF s = <<>> THEN (IF started THEN <<cur>> ELSE <<>>)
    ELSE IF Head(s) \in LineBreaks
         THEN <<cur>> \o SplitLinesFrom(Tail(s), <<>>, FALSE)
         ELSE SplitLinesFrom(Tail(s), Append(cur, Head(s)), TRUE)

SplitLines(s) == SplitLinesFrom(s, <<>>, FALSE)

(***************************************************************************)
(* _summarize_with_llm                                                     *)
(***************************************************************************)
\* the `if not ENDPOINT or not API_KEY` test
NotConfiguredBoth(s) == s.endpoint = "" /\ s.api_key = ""
NotConfigured(s) == s.endpoint = "" \/ s.api_key = ""

\* the f-string placeholder: the configuration hint naming the code
ConfigHint(code) == <<"cfg_hint", code>>

\* a line of the completion that becomes a bullet
LineQualifies(line) ==
    /\ Strip(line) # <<>>
    /\ \/ StartsWith(Strip(line), "dot")
       \/ StartsWith(Strip(line), "bul")
       \/ StartsWith(Strip(line), "dash")

\* line.lstrip("...").strip(): the glyphs are stripped from the raw line
BulletOf(line) == Strip(LStripSet(line, Glyphs))

\* lines 182-193: the list comprehension over content.splitlines()
RECURSIVE BulletsOfLines(_)
BulletsOfLines(lines) ==
    IF lines = <<>> THEN <<>>
    ELSE (IF LineQualifies(Head(lines)) THEN <<BulletOf(Head(lines))>> ELSE <<>>)
         \o BulletsOfLines(Tail(lines))

PostProcess(content) ==
    LET bullets == BulletsOfLines(SplitLines(content))
    IN  IF bullets # <<>> THEN bullets ELSE <<Strip(content)>>

\* the user message: the stripped text, or the source-unavailable notice
UserContent(code, text) ==
    IF Strip(text) # <<>> THEN Strip(text) ELSE <<"no_text_notice", code>>

(***************************************************************************)
(* get_ipo_summary and _SUMMARY_CACHE                                      *)
(***************************************************************************)
CACHE_TTL == 24

IsFreshInclusive(now, cached_at) == now - cached_at <= CACHE_TTL
IsFresh(now, cached_at) == now - cached_at < CACHE_TTL

CacheHitAnyAge(cache, code, now) == cache[code] # None
\* `code in _SUMMARY_CACHE` and the age test; an entry is Some((resp, cached_at))
CacheHit(cache, code, now) ==
    /\ cache[code] # None
    /\ IsFresh(now, cache[code][1].cached_at)

HitResponseUnflagged(cached_resp) ==
    [code |-> cached_resp.code, bullets |-> cached_resp.bullets,
     cached |-> FALSE, generated_at |-> cached_resp.generated_at]
\* lines 65-70
HitResponse(cached_resp) ==
    [code |-> cached_resp.code, bullets |-> cached_resp.bullets,
     cached |-> TRUE, generated_at |-> cached_resp.generated_at]

\* lines 86-91
MissResponse(code, bullets, now) ==
    [code |-> code, bullets |-> bullets, cached |-> FALSE, generated_at |-> now]

CacheStoreIfNewer(cache, code, resp, now) ==
    IF cache[code] # None /\ cache[code][1].cached_at >= now
    THEN cache
    ELSE [cache EXCEPT ![code] = Some([resp |-> resp, cached_at |-> now])]
\* line 92: _SUMMARY_CACHE[code] = (resp, now)
CacheStore(cache, code, resp, now) ==
    [cache EXCEPT ![code] = Some([resp |-> resp, cached_at |-> now])]

\* what the backend may answer, and what the extractor may read
Completions == { <<"dot", "a">>, <<"b">> }
Texts == { <<"t">> }
PdfUrl(code) == <<"https://www.jpx.co.jp", "/", code, ".pdf">>

IdleReq ==
    [pc |-> "idle", code |-> "", now |-> 0, pdf_url |-> None, resp |-> None,
     seen |-> None, logLen |-> 0,
     ranLocator |-> FALSE, ranSummarizer |-> FALSE, calledBackend |-> FALSE]

\* history: the last request of a log of writes (0: none yet)
LastOf(log) == IF log = <<>> THEN 0 ELSE log[Len(log)]

\* history: the last request that wrote the entry of `code`
LastWriter(code) == LastOf(writeLog[code])

IdleSumm ==
    [pc |-> "off", code |-> "", text |-> <<>>, completion |-> None,
     called |-> FALSE, prompt |-> <<>>, result |-> <<>>]
IdleListing ==
    [pc |-> "off", page |-> [has_table |-> FALSE, rows |-> <<>>],
     fetch |-> "none", parsed |-> [kind |-> "none"],
     resp |-> [items |-> <<>>, total_count |-> 0], located |-> None]
IdleDate == [pc |-> "off", raw |-> <<>>, result |-> [kind |-> "none"]]

Init ==
    /\ clock = 0
    /\ settings \in [endpoint : {"", "https://aoai"}, api_key : {"", "key"}]
    /\ SUMMARY_CACHE = [c \in Codes |-> None]
    /\ req = [r \in ReqIds |-> IdleReq]
    /\ writeLog = [c \in Codes |-> <<>>]
    /\ summ = IdleSumm
    /\ listing = IdleListing
    /\ pdate = IdleDate

\* time passes
Tick ==
    /\ clock + HoursPerTick <= MaxTime
    /\ clock' = clock + HoursPerTick
    /\ UNCHANGED <<settings, SUMMARY_CACHE, req, writeLog, summ, listing, pdate>>

\* lines 58-73: `now` is read, the cache is probed; a hit returns at once, a
\* miss goes on to await the locator's page fetch
GetIpoSummary(r, code) ==
    /\ req[r].pc = "idle"
    /\ IF r = 1 THEN TRUE ELSE req[r - 1].pc # "idle"
    /\ LET now == clock
           rec == [IdleReq EXCEPT !.code = code, !.now = now,
                       !.seen = SUMMARY_CACHE[code],
                       !.logLen = Len(writeLog[code])]
       IN  IF CacheHit(SUMMARY_CACHE, code, now)
           THEN req' = [req EXCEPT ![r] =
                    [rec EXCEPT !.pc = "returned",
                                !.resp = Some(HitResponse(SUMMARY_CACHE[code][1].resp))]]
           ELSE req' = [req EXCEPT ![r] =
                    [rec EXCEPT !.pc = "locate", !.ranLocator = TRUE]]
    /\ UNCHANGED <<clock, settings, SUMMARY_CACHE, writeLog, summ, listing, pdate>>

\* lines 86-93: the record is built, stored and returned
StoreAndReturn(r, rec, bullets) ==
    LET resp == MissResponse(rec.code, bullets, rec.now)
    IN  /\ SUMMARY_CACHE' = CacheStore(SUMMARY_CACHE, rec.code, resp, rec.now)
        /\ writeLog' = [writeLog EXCEPT ![rec.code] = Append(@, r)]
        /\ req' = [req EXCEPT ![r] = [rec EXCEPT !.pc = "returned", !.resp = Some(resp)]]

\* lines 84 and 142-180: _summarize_with_llm is entered with the text; with no
\* backend configured it returns the hint without awaiting, so the record is
\* stored in the same step; otherwise the backend call is awaited. The locals
\* text and pdf_url are not read again and are not kept.
EnterSummarizer(r, rec, text) ==
    LET rec1 == [rec EXCEPT !.ranSummarizer = TRUE, !.pdf_url = None]
    IN  IF NotConfigured(settings)
        THEN StoreAndReturn(r, rec1, <<ConfigHint(rec.code)>>)
        ELSE /\ req' = [req EXCEPT ![r] =
                    [rec1 EXCEPT !.pc = "llm", !.calledBackend = TRUE]]
             /\ UNCHANGED <<SUMMARY_CACHE, writeLog>>

\* lines 99-105: the page fetch fails, the locator answers None
LocatorFetchFails(r) ==
    /\ req[r].pc = "locate"
    /\ EnterSummarizer(r, req[r], <<>>)
    /\ UNCHANGED <<clock, settings, summ, listing, pdate>>

\* lines 107-122: no row names the code, or the row holds no PDF anchor
LocatorFindsNothing(r) ==
    /\ req[r].pc = "locate"
    /\ EnterSummarizer(r, req[r], <<>>)
    /\ UNCHANGED <<clock, settings, summ, listing, pdate>>

\* lines 116-120 and 77-79: a URL is found and the PDF fetch is awaited
LocatorFindsUrl(r) ==
    /\ req[r].pc = "locate"
    /\ req' = [req EXCEPT ![r].pc = "extract",
                          ![r].pdf_url = Some(PdfUrl(req[r].code))]
    /\ UNCHANGED <<clock, settings, SUMMARY_CACHE, writeLog, summ, listing, pdate>>

\* lines 124-139: the extractor returns the text of the leading pages
ExtractorReturns(r, text) ==
    /\ req[r].pc = "extract"
    /\ EnterSummarizer(r, req[r], text)
    /\ UNCHANGED <<clock, settings, summ, listing, pdate>>

\* lines 80-81: any exception of the extractor is logged, text stays ""
ExtractorRaises(r) ==
    /\ req[r].pc = "extract"
    /\ EnterSummarizer(r, req[r], <<>>)
    /\ UNCHANGED <<clock, settings, summ, listing, pdate>>

\* lines 173-193 and 86-93: the backend answers, the bullets are read off
BackendReturns(r, content) ==
    /\ req[r].pc = "llm"
    /\ StoreAndReturn(r, req[r], PostProcess(content))
    /\ UNCHANGED <<clock, settings, summ, listing, pdate>>

BackendRaisesStoring(r) ==
    /\ req[r].pc = "llm"
    /\ SUMMARY_CACHE' = CacheStore(SUMMARY_CACHE, req[r].code,
                            MissResponse(req[r].code, <<>>, req[r].now), req[r].now)
    /\ req' = [req EXCEPT ![r].pc = "raised"]
    /\ UNCHANGED <<clock, settings, writeLog, summ, listing, pdate>>
\* lines 173-180: the awaited call raises (API error, timeout); nothing in
\* _summarize_with_llm or get_ipo_summary catches it
BackendRaises(r) ==
    /\ req[r].pc = "llm"
    /\ req' = [req EXCEPT ![r].pc = "raised"]
    /\ UNCHANGED <<clock, settings, SUMMARY_CACHE, writeLog, summ, listing, pdate>>

Next ==
    \/ Tick
    \/ \E r \in ReqIds, code \in Codes : GetIpoSummary(r, code)
    \/ \E r \in ReqIds : LocatorFetchFails(r)
    \/ \E r \in ReqIds : LocatorFindsNothing(r)
    \/ \E r \in ReqIds : LocatorFindsUrl(r)
    \/ \E r \in ReqIds, text \in Texts : ExtractorReturns(r, text)
    \/ \E r \in ReqIds : ExtractorRaises(r)
    \/ \E r \in ReqIds, content \in Completions : BackendReturns(r, content)
    \/ \E r \in ReqIds : BackendRaises(r)

Spec == Init /\ [][Next]_vars

(***************************************************************************)
(* One call of _summarize_with_llm(code, text); the backend's answer is an  *)
(* input drawn with the arguments (None: the message holds no content)     *)
(***************************************************************************)
SummAlphabet == {"dot", "bul", "dash", "sp", "nl", "a"}
StringsUpTo(n) == UNION { [1..k -> SummAlphabet] : k \in 0..n }

RECURSIVE RepeatLine(_, _)
RepeatLine(line, n) ==
    IF n <= 1 THEN line ELSE line \o <<"nl">> \o RepeatLine(line, n - 1)

\* completions of up to MaxBulletLines bullet lines
ManyLines ==
    { RepeatLine(l, n) : l \in { <<"dot", "a">>, <<"sp", "dash", "a">> },
                         n \in 1..MaxBulletLines }

SummCompletions ==
    {None} \cup { Some(c) : c \in StringsUpTo(MaxContentLen) \cup ManyLines }
SummTexts == { <<>>, <<"sp">>, <<"t">> }

\* line 182: response.choices[0].message.content or ""
ContentOf(completion) == IF completion = None THEN <<>> ELSE completion[1]

InitSummarize ==
    /\ clock = 0
    /\ settings \in [endpoint : {"", "https://aoai"}, api_key : {"", "key"}]
    /\ SUMMARY_CACHE = [c \in Codes |-> None]
    /\ req = [r \in ReqIds |-> IdleReq]
    /\ writeLog = [c \in Codes |-> <<>>]
    /\ summ \in [pc : {"ready"}, code : Codes, text : SummTexts,
                 completion : SummCompletions, called : {FALSE},
                 prompt : {<<>>}, result : {<<>>}]
    /\ listing = IdleListing
    /\ pdate = IdleDate

\* lines 144-152: no backend configured, the hint is returned
SummarizeUnconfigured ==
    /\ summ.pc = "ready"
    /\ NotConfigured(settings)
    /\ summ' = [summ EXCEPT !.pc = "done", !.result = <<ConfigHint(summ.code)>>]
    /\ UNCHANGED <<clock, settings, SUMMARY_CACHE, req, writeLog, listing, pdate>>

\* lines 154-180: the client is built and the completion is awaited
SummarizeCallsBackend ==
    /\ summ.pc = "ready"
    /\ ~NotConfigured(settings)
    /\ summ' = [summ EXCEPT !.pc = "awaiting", !.called = TRUE,
                            !.prompt = UserContent(summ.code, summ.text)]
    /\ UNCHANGED <<clock, settings, SUMMARY_CACHE, req, writeLog, listing, pdate>>

\* lines 182-193: the completion is post-processed into bullets
SummarizeBackendReturns ==
    /\ summ.pc = "awaiting"
    /\ summ' = [summ EXCEPT !.pc = "done",
                            !.result = PostProcess(ContentOf(summ.completion))]
    /\ UNCHANGED <<clock, settings, SUMMARY_CACHE, req, writeLog, listing, pdate>>

\* lines 173-180: the awaited call raises and nothing catches it
SummarizeBackendRaises ==
    /\ summ.pc = "awaiting"
    /\ summ' = [summ EXCEPT !.pc = "raised"]
    /\ UNCHANGED <<clock, settings, SUMMARY_CACHE, req, writeLog, listing, pdate>>

NextSummarize ==
    \/ SummarizeUnconfigured
    \/ SummarizeCallsBackend
    \/ SummarizeBackendReturns
    \/ SummarizeBackendRaises

SpecSummarize == InitSummarize /\ [][NextSummarize]_vars

(***************************************************************************)
(* _parse_date. A raw string is a sequence of tokens: a run of digits      *)
(* (k = "num", ds = its digits), a month abbreviation (k = "mon", ds =     *)
(* <<month>>), or one other character (k names it, ds = <<>>).             *)
(***************************************************************************)
Num(ds) == [k |-> "num", ds |-> ds]
Mon(m) == [k |-> "mon", ds |-> <<m>>]
Ch(k) == [k |-> k, ds |-> <<>>]

\* re.sub(r"\(.*?\)", "", raw): each "(" up to the next ")" is removed; digit
\* runs that become adjacent are one run
RECURSIVE DropThroughRp(_)
DropThroughRp(toks) ==
    IF Head(toks).k = "rp" THEN Tail(toks) ELSE DropThroughRp(Tail(toks))

RECURSIVE RemoveParens(_)
RemoveParens(toks) ==
    IF toks = <<>> THEN <<>>
    ELSE IF Head(toks).k = "lp" /\ \E i \in 2..Len(toks) : toks[i].k = "rp"
         THEN RemoveParens(DropThroughRp(Tail(toks)))
         ELSE <<Head(toks)>> \o RemoveParens(Tail(toks))

RECURSIVE MergeRuns(_)
MergeRuns(toks) ==
    IF Len(toks) < 2 THEN toks
    ELSE IF toks[1].k = "num" /\ toks[2].k = "num"
         THEN MergeRuns(<<Num(toks[1].ds \o toks[2].ds)>> \o SubSeq(toks, 3, Len(toks)))
         ELSE <<toks[1]>> \o MergeRuns(Tail(toks))

RECURSIVE StripSpaces(_)
StripSpaces(toks) ==
    IF toks # <<>> /\ Head(toks).k = "sp" THEN StripSpaces(Tail(toks))
    ELSE IF toks # <<>> /\ toks[Len(toks)].k = "sp"
         THEN StripSpaces(SubSeq(toks, 1, Len(toks) - 1))
         ELSE toks

\* line 300
Clean(raw) == StripSpaces(MergeRuns(RemoveParens(raw)))

\* the digits of a run without its leading zeros
RECURSIVE Significant(_)
Significant(ds) ==
    IF ds # <<>> /\ Head(ds) = 0 THEN Significant(Tail(ds)) ELSE ds

RECURSIVE DigitsValue(_)
DigitsValue(ds) ==
    IF ds = <<>> THEN 0 ELSE 10 * DigitsValue(SubSeq(ds, 1, Len(ds) - 1)) + ds[Len(ds)]

\* int(run): exact up to nine significant digits; a longer run is only
\* compared with the largest C int, 2147483647
IntMaxDigits == <<2, 1, 4, 7, 4, 8, 3, 6, 4, 7>>

RECURSIVE LexGreater(_, _)
LexGreater(a, b) ==
    IF a = <<>> THEN FALSE
    ELSE IF Head(a) # Head(b) THEN Head(a) > Head(b)
         ELSE LexGreater(Tail(a), Tail(b))

ExceedsCInt(ds) ==
    LET sig == Significant(ds)
    IN  \/ Len(sig) > Len(IntMaxDigits)
        \/ Len(sig) = Len(IntMaxDigits) /\ LexGreater(sig, IntMaxDigits)

\* the value as far as a date needs it: every value over 9999 is out of range
IntOf(ds) ==
    IF Len(Significant(ds)) > 4 THEN 10000 ELSE DigitsValue(Significant(ds))

IsLeap(y) == (y % 4 = 0 /\ y % 100 # 0) \/ y % 400 = 0
DaysIn(y, m) ==
    IF m = 2 THEN (IF IsLeap(y) THEN 29 ELSE 28)
    ELSE IF m \in {4, 6, 9, 11} THEN 30 ELSE 31

ValidDate(y, m, d) ==
    /\ y >= 1 /\ y <= 9999
    /\ m >= 1 /\ m <= 12
    /\ d >= 1 /\ d <= DaysIn(y, m)

DateValue(y, m, d) == [kind |-> "date", y |-> y, m |-> m, d |-> d]
ValueError == [kind |-> "ValueError"]
OverflowError == [kind |-> "OverflowError"]

\* datetime.strptime(clean, fmt): the format as a sequence of elements; "ws"
\* (a blank of the format) takes one or more blanks, %Y four digits, %m and
\* %d one or two digits in range, %b a month abbreviation
Formats ==
    << <<"%b", "dot", "ws", "%d", "comma", "ws", "%Y">>,
       <<"%b", "ws", "%d", "comma", "ws", "%Y">>,
       <<"%Y", "slash", "%m", "slash", "%d">>,
       <<"%Y", "nen", "%m", "gatsu", "%d", "nichi">> >>

RECURSIVE SkipBlanks(_)
SkipBlanks(toks) ==
    IF toks # <<>> /\ Head(toks).k = "sp" THEN SkipBlanks(Tail(toks)) ELSE toks

DirectiveMatches(e, tok) ==
    CASE e = "%b" -> tok.k = "mon"
      [] e = "%Y" -> tok.k = "num" /\ Len(tok.ds) = 4
      [] e = "%m" -> /\ tok.k = "num" /\ Len(tok.ds) <= 2
                     /\ DigitsValue(tok.ds) >= 1 /\ DigitsValue(tok.ds) <= 12
      [] e = "%d" -> /\ tok.k = "num" /\ Len(tok.ds) <= 2
                     /\ DigitsValue(tok.ds) >= 1 /\ DigitsValue(tok.ds) <= 31
      [] OTHER -> FALSE

\* the fields found, as <<year, month, day>> with 0 for one not yet found, or
\* <<>> when the string does not match the format
RECURSIVE MatchFormat(_, _, _)
MatchFormat(fmt, toks, got) ==
    IF fmt = <<>> THEN (IF toks = <<>> THEN got ELSE <<>>)
    ELSE IF toks = <<>> THEN <<>>
    ELSE LET e == Head(fmt)
             tok == Head(toks)
         IN  IF e = "ws"
             THEN (IF tok.k = "sp" THEN MatchFormat(Tail(fmt), SkipBlanks(toks), got)
                   ELSE <<>>)
             ELSE IF e \in {"%b", "%Y", "%m", "%d"}
             THEN (IF DirectiveMatches(e, tok)
                   THEN MatchFormat(Tail(fmt), Tail(toks),
                            CASE e = "%Y" -> [got EXCEPT ![1] = DigitsValue(tok.ds)]
                              [] e = "%d" -> [got EXCEPT ![3] = DigitsValue(tok.ds)]
                              [] OTHER -> [got EXCEPT ![2] = DigitsValue(tok.ds)])
                   ELSE <<>>)
             ELSE (IF tok.k = e THEN MatchFormat(Tail(fmt), Tail(toks), got) ELSE <<>>)

\* lines 308-311: ValueError when the string does not match or the fields
\* are no date
Strptime(clean, fmt) ==
    LET got == MatchFormat(fmt, clean, <<0, 0, 0>>)
    IN  IF got # <<>> /\ ValidDate(got[1], got[2], got[3])
        THEN DateValue(got[1], got[2], got[3])
        ELSE ValueError

\* line 314: re.findall(r"\d+", clean)
RECURSIVE DigitRuns(_)
DigitRuns(toks) ==
    IF toks = <<>> THEN <<>>
    ELSE (IF Head(toks).k = "num" THEN <<Head(toks).ds>> ELSE <<>>)
         \o DigitRuns(Tail(toks))

\* line 317: date(int, int, int): OverflowError for an argument that is no C
\* int, ValueError for one out of range
DateOfRuns(y, m, d) ==
    IF ExceedsCInt(y) \/ ExceedsCInt(m) \/ ExceedsCInt(d) THEN OverflowError
    ELSE IF ValidDate(IntOf(y), IntOf(m), IntOf(d))
         THEN DateValue(IntOf(y), IntOf(m), IntOf(d))
         ELSE ValueError

\* date.today()
Today == DateValue(2026, 11, 3)

RECURSIVE TryFormats(_, _)
TryFormats(clean, i) ==
    IF i > Len(Formats) THEN ValueError
    ELSE IF Strptime(clean, Formats[i]).kind = "date" THEN Strptime(clean, Formats[i])
         ELSE TryFormats(clean, i + 1)

\* lines 291-322: the date returned, or the exception that leaves the function
ParseDate(raw) ==
    LET clean == Clean(raw)
        byFormat == TryFormats(clean, 1)
        runs == DigitRuns(clean)
        byRuns == IF Len(runs) >= 3 THEN DateOfRuns(runs[1], runs[2], runs[3])
                  ELSE ValueError
    IN  IF byFormat.kind = "date" THEN byFormat
        ELSE IF byRuns.kind = "ValueError" THEN Today
             ELSE byRuns

(***************************************************************************)
(* One call of _parse_date(raw)                                            *)
(***************************************************************************)
DateNums ==
    { Num(<<2, 0, 2, 6>>), Num(<<0, 4>>), Num(<<2>>), Num(<<3, 0>>), Num(<<1, 3>>),
      Num(<<2, 1, 4, 7, 4, 8, 3, 6, 4, 7>>), Num(<<2, 1, 4, 7, 4, 8, 3, 6, 4, 8>>) }
DateTokens ==
    DateNums \cup { Mon(4) }
    \cup { Ch(k) : k \in {"dot", "comma", "sp", "slash", "nen", "gatsu", "nichi",
                          "lp", "rp", "x"} }

\* two digit runs side by side are one run
NoAdjacentRuns(toks) ==
    \A i \in 1..(Len(toks) - 1) : ~(toks[i].k = "num" /\ toks[i + 1].k = "num")

FreeDateStrings ==
    { t \in UNION { [1..n -> DateTokens] : n \in 0..MaxDateTokens } : NoAdjacentRuns(t) }

\* the shapes of the listing page's date cell, with every choice of runs:
\* "Apr. 02, 2026", "Apr 02, 2026", "2026/04/02", the localized form,
\* "2026-04-02" and "20(x)26-04-02"
ShapedDates(a, b, c, d) ==
    { <<Mon(4), Ch("dot"), Ch("sp"), a, Ch("comma"), Ch("sp"), b>>,
      <<Mon(4), Ch("sp"), a, Ch("comma"), Ch("sp"), b>>,
      <<a, Ch("slash"), b, Ch("slash"), c>>,
      <<a, Ch("nen"), b, Ch("gatsu"), c, Ch("nichi")>>,
      <<a, Ch("x"), b, Ch("x"), c>>,
      <<a, Ch("lp"), Ch("x"), Ch("rp"), b, Ch("x"), c, Ch("x"), d>> }

\* what may follow the date: nothing, the application date in parentheses, or
\* an opening parenthesis that is never closed
DateSuffixes ==
    { <<>>,
      <<Ch("lp"), Mon(4), Ch("dot"), Ch("sp"), Num(<<2, 6>>), Ch("rp")>>,
      <<Ch("sp"), Ch("lp"), Num(<<2, 6>>)>> }

DateInputs ==
    FreeDateStrings
    \cup UNION { { t \o sfx : t \in ShapedDates(a, b, c, d), sfx \in DateSuffixes } :
                 a \in DateNums, b \in DateNums, c \in DateNums, d \in DateNums }

InitDate ==
    /\ clock = 0
    /\ settings = [endpoint |-> "", api_key |-> ""]
    /\ SUMMARY_CACHE = [c \in Codes |-> None]
    /\ req = [r \in ReqIds |-> IdleReq]
    /\ writeLog = [c \in Codes |-> <<>>]
    /\ summ = IdleSumm
    /\ listing = IdleListing
    /\ pdate \in [pc : {"ready"}, raw : DateInputs, result : {[kind |-> "none"]}]

\* a date is returned: by a format, by the digit runs, or today's
ParseDateReturns ==
    /\ pdate.pc = "ready"
    /\ ParseDate(pdate.raw).kind = "date"
    /\ pdate' = [pdate EXCEPT !.pc = "done", !.result = ParseDate(pdate.raw)]
    /\ UNCHANGED <<clock, settings, SUMMARY_CACHE, req, writeLog, summ, listing>>

\* line 317 raises an exception that line 318 does not catch
ParseDateRaises ==
    /\ pdate.pc = "ready"
    /\ ParseDate(pdate.raw).kind # "date"
    /\ pdate' = [pdate EXCEPT !.pc = "raised", !.result = ParseDate(pdate.raw)]
    /\ UNCHANGED <<clock, settings, SUMMARY_CACHE, req, writeLog, summ, listing>>

NextDate == ParseDateReturns \/ ParseDateRaises

SpecDate == InitDate /\ [][NextDate]_vars

(***************************************************************************)
(* _parse_html and its helpers. A table row is                              *)
(*   [ncells: the number of its td cells, c0: the text of its first cell,   *)
(*    name: the first text node of its second cell, ticker: the text of its *)
(*    third cell, price: the text of its seventh cell, hrefs: per PDF       *)
(*    anchor of the row, its href, in cell order].                          *)
(* A text is a sequence of tokens (as for _parse_date), an href a sequence  *)
(* of strings that starts with "http", with "/" or with a path segment.     *)
(***************************************************************************)
JPX_BASE_URL == <<"https://www.jpx.co.jp">>

\* lines 357-363; the base holds no trailing slash
ResolveUrl(base, href) ==
    IF Head(href) = "http" THEN href
    ELSE IF Head(href) = "/" THEN base \o href
         ELSE base \o <<"/">> \o href

\* lines 366-374: the first PDF anchor with a non-empty href, made absolute
FindPdfInCols(row) ==
    LET found == SelectSeq(row.hrefs, LAMBDA h : h # <<>>)
    IN  IF found = <<>> THEN None ELSE Some(ResolveUrl(JPX_BASE_URL, Head(found)))

\* lines 346-353: the three abbreviations become the full suffix
RECURSIVE NormalizeCompanyName(_)
NormalizeCompanyName(name) ==
    IF name = <<>> THEN <<>>
    ELSE <<IF Head(name).k \in {"kabu_full", "kabu_half", "kabu_square"}
           THEN Ch("kabushiki_gaisha") ELSE Head(name)>>
         \o NormalizeCompanyName(Tail(name))

\* lines 324-334: commas go, digits and points stay; float() of the rest, or
\* None when nothing is left or float() raises ValueError
RECURSIVE PriceDigits(_)
PriceDigits(text) ==
    IF text = <<>> THEN <<>>
    ELSE (IF Head(text).k \in {"num", "point"} THEN <<Head(text)>> ELSE <<>>)
         \o PriceDigits(Tail(text))

ParsePriceText(text) ==
    LET digits == PriceDigits(text)
        points == Len(SelectSeq(digits, LAMBDA t : t.k = "point"))
        runs == Len(SelectSeq(digits, LAMBDA t : t.k = "num"))
    IN  IF digits = <<>> \/ points > 1 \/ runs = 0 THEN None ELSE Some(digits)

\* lines 275-285, with the index of the record's first row as history
IpoItem(i, row1, market, pdf, listing_date) ==
    [src |-> i,
     company_name |-> NormalizeCompanyName(row1.name),
     ticker |-> row1.ticker,
     market |-> market,
     listing_date |-> listing_date,
     offering_price |-> ParsePriceText(row1.price),
     outline_pdf_url |-> pdf]

\* lines 236-287: the loop from index i (1-based) with the items so far; an
\* exception of _parse_date leaves the loop and the function
RECURSIVE ParseRows(_, _, _)
ParseRows(rows, i, items) ==
    IF i > Len(rows) THEN [kind |-> "items", items |-> items]
    ELSE LET row1 == rows[i]
         IN  IF row1.ncells < 8 THEN ParseRows(rows, i + 1, items)
             ELSE LET pdf1 == FindPdfInCols(row1)
                      hasRow2 == i + 1 <= Len(rows)
                      cols2 == hasRow2 /\ rows[i + 1].ncells > 0
                      market == IF cols2 THEN rows[i + 1].c0 ELSE <<>>
                      pdf == IF cols2 /\ pdf1 = None
                             THEN FindPdfInCols(rows[i + 1]) ELSE pdf1
                      next == IF hasRow2 THEN i + 2 ELSE i + 1
                      listing_date == ParseDate(row1.c0)
                 IN  IF NormalizeCompanyName(row1.name) = <<>> \/ row1.ticker = <<>>
                     THEN ParseRows(rows, next, items)
                     ELSE IF listing_date.kind # "date" THEN listing_date
                     ELSE ParseRows(rows, next,
                              Append(items, IpoItem(i, row1, market, pdf, listing_date)))

\* line 113: row.get_text(), the text of the row's cells in cell order
RowText(row) == row.c0 \o row.name \o row.ticker \o row.price

\* line 114: `code in row_text`
CodeInText(code, text) == \E i \in 1..Len(text) : text[i] = Ch(code)

\* lines 110-122: the rows are scanned one by one from index i; the first PDF
\* anchor of the first row whose text holds the code is taken; a row with the
\* code and no such anchor is passed over
RECURSIVE FindPdfUrlInRows(_, _, _)
FindPdfUrlInRows(rows, i, code) ==
    IF i > Len(rows) THEN None
    ELSE IF ~CodeInText(code, RowText(rows[i]))
         THEN FindPdfUrlInRows(rows, i + 1, code)
         ELSE IF rows[i].hrefs # <<>> /\ Head(rows[i].hrefs) # <<>>
              THEN Some(ResolveUrl(JPX_BASE_URL, Head(rows[i].hrefs)))
              ELSE FindPdfUrlInRows(rows, i + 1, code)

\* lines 221-287
ParseHtml(page) ==
    IF ~page.has_table THEN [kind |-> "DataParsingError"]
    ELSE ParseRows(page.rows, 1, <<>>)

(***************************************************************************)
(* One call of get_latest_ipos()                                           *)
(***************************************************************************)
GoodDate == <<Mon(4), Ch("dot"), Ch("sp"), Num(<<0, 2>>), Ch("comma"), Ch("sp"),
              Num(<<2, 0, 2, 6>>), Ch("lp"), Mon(2), Ch("dot"), Ch("sp"),
              Num(<<2, 6>>), Ch("comma"), Ch("sp"), Num(<<2, 0, 2, 6>>), Ch("rp")>>
HugeDate == <<Num(<<2, 1, 4, 7, 4, 8, 3, 6, 4, 8>>), Ch("slash"), Num(<<2>>),
              Ch("slash"), Num(<<2>>)>>

MainRow(date, name, ticker, price, hrefs) ==
    [ncells |-> 8, c0 |-> date, name |-> name, ticker |-> ticker,
     price |-> price, hrefs |-> hrefs]
SegmentRow(market, hrefs) ==
    [ncells |-> 6, c0 |-> market, name |-> <<>>, ticker |-> <<>>,
     price |-> <<>>, hrefs |-> hrefs]
HeaderRow ==
    [ncells |-> 0, c0 |-> <<>>, name |-> <<>>, ticker |-> <<>>,
     price |-> <<>>, hrefs |-> <<>>]

TableRows ==
    { MainRow(GoodDate, <<Ch("A")>>, <<Ch("1234")>>,
              <<Num(<<3>>), Ch("comma"), Num(<<7, 2, 0>>)>>, <<>>),
      MainRow(GoodDate, <<Ch("kabu_half"), Ch("B")>>, <<Ch("5678")>>,
              <<Ch("N"), Ch("slash"), Ch("A")>>, << <<"/", "listing/5678.pdf">> >>),
      MainRow(HugeDate, <<Ch("C")>>, <<Ch("1234")>>, <<>>, <<>>),
      MainRow(GoodDate, <<>>, <<Ch("1234")>>, <<>>, <<>>),
      MainRow(<<Ch("x")>>, <<Ch("D")>>, <<>>, <<>>, <<>>),
      SegmentRow(<<Ch("Growth")>>, <<>>),
      SegmentRow(<<Ch("Prime")>>, << <<"docs/1234.pdf">> >>),
      HeaderRow }

Pages ==
    { [has_table |-> FALSE, rows |-> <<>>] }
    \cup { [has_table |-> TRUE, rows |-> rows] :
           rows \in UNION { [1..n -> TableRows] : n \in 0..MaxRows } }

InitListing ==
    /\ clock = 0
    /\ settings = [endpoint |-> "", api_key |-> ""]
    /\ SUMMARY_CACHE = [c \in Codes |-> None]
    /\ req = [r \in ReqIds |-> IdleReq]
    /\ writeLog = [c \in Codes |-> <<>>]
    /\ summ = IdleSumm
    /\ listing \in [pc : {"fetching"}, page : Pages, fetch : {"none"},
                    parsed : {[kind |-> "none"]},
                    resp : {[items |-> <<>>, total_count |-> 0]},
                    located : {None}]
    /\ pdate = IdleDate

\* lines 48-52
EmptyLatest == [items |-> <<>>, total_count |-> 0]

\* lines 198-209 and 45-52: the fetch times out, answers a non-2xx status or
\* fails in transport; ExternalAPIError is caught and the empty list returned
LatestFetchFails(kind) ==
    /\ listing.pc = "fetching"
    /\ listing' = [listing EXCEPT !.pc = "done", !.fetch = kind, !.resp = EmptyLatest]
    /\ UNCHANGED <<clock, settings, SUMMARY_CACHE, req, writeLog, summ, pdate>>

\* lines 211 and 37-52: the page is parsed; DataParsingError is caught, items
\* are returned when there are any, any other exception leaves the call
LatestFetchReturns ==
    /\ listing.pc = "fetching"
    /\ LET parsed == ParseHtml(listing.page)
       IN  listing' =
             [listing EXCEPT
                !.fetch = "ok",
                !.parsed = parsed,
                !.pc = IF parsed.kind \in {"items", "DataParsingError"}
                       THEN "done" ELSE "raised",
                !.resp = IF parsed.kind = "items" /\ parsed.items # <<>>
                         THEN [items |-> parsed.items,
                               total_count |-> Len(parsed.items)]
                         ELSE EmptyLatest]
    /\ UNCHANGED <<clock, settings, SUMMARY_CACHE, req, writeLog, summ, pdate>>

\* lines 98-105: _find_pdf_url_for_code(code) fetches the page again; any
\* exception of the fetch is logged and None returned
FindPdfUrlFetchFails(code) ==
    /\ listing.pc # "off"
    /\ listing.located = None
    /\ listing' = [listing EXCEPT
                     !.located = Some([code |-> code, fetched |-> FALSE, url |-> None])]
    /\ UNCHANGED <<clock, settings, SUMMARY_CACHE, req, writeLog, summ, pdate>>

\* lines 107-122: the fetch answers the same page and its rows are scanned
FindPdfUrlForCode(code) ==
    /\ listing.pc # "off"
    /\ listing.located = None
    /\ listing' = [listing EXCEPT
                     !.located = Some([code |-> code, fetched |-> TRUE,
                                       url |-> FindPdfUrlInRows(listing.page.rows, 1, code)])]
    /\ UNCHANGED <<clock, settings, SUMMARY_CACHE, req, writeLog, summ, pdate>>

NextListing ==
    \/ \E kind \in {"TimeoutException", "HTTPStatusError", "RequestError"} :
          LatestFetchFails(kind)
    \/ LatestFetchReturns
    \/ \E code \in Codes : FindPdfUrlFetchFails(code)
    \/ \E code \in Codes : FindPdfUrlForCode(code)

SpecListing == InitListing /\ [][NextListing]_vars

(***************************************************************************)
(* Properties of get_ipo_summary and the cache (checked under Spec)        *)
(***************************************************************************)
Started(r) == req[r].pc # "idle"
Returned(r) == req[r].pc = "returned"
RespOf(r) == req[r].resp[1]

\* history: the place of r's write among the writes of its code (0: r has
\* not written)
WritePos(r) ==
    IF Started(r) /\ \E i \in 1..Len(writeLog[req[r].code]) : writeLog[req[r].code][i] = r
    THEN CHOOSE i \in 1..Len(writeLog[req[r].code]) : writeLog[req[r].code][i] = r
    ELSE 0

\* history: the request whose write was the latest one for r's code when r
\* probed the cache (0: none)
LastWriterAtStart(r) ==
    IF Started(r) THEN LastOf(SubSeq(writeLog[req[r].code], 1, req[r].logLen)) ELSE 0

\* the entry r found when it probed was absent or at least 24 hours old
SawExpired(r) ==
    /\ req[r].seen # None
    /\ req[r].now - req[r].seen[1].cached_at >= 24
SawNoFreshEntry(r) == req[r].seen = None \/ SawExpired(r)

\* C1: a call b that starts when the latest write for its code is that of an
\* earlier call a, less than 24 hours after a's start, is a hit: a returned
\* cached=false, b returns cached=true with a's bullets and generated_at.
C1_CacheRoundTrip ==
    \A a \in ReqIds, b \in ReqIds :
        ( /\ Started(b)
          /\ LastWriterAtStart(b) = a
          /\ req[b].now - req[a].now < 24 )
        => /\ Returned(a)
           /\ RespOf(a).cached = FALSE
           /\ Returned(b)
           /\ RespOf(b).cached = TRUE
           /\ RespOf(b).bullets = RespOf(a).bullets
           /\ RespOf(b).generated_at = RespOf(a).generated_at

\* C1 witness: a second call, started later than the first and within the TTL,
\* has returned the first call's record flagged as cached.
C1_Witness ==
    \E a \in ReqIds, b \in ReqIds :
        /\ Returned(a) /\ Returned(b)
        /\ LastWriterAtStart(b) = a
        /\ req[b].now > req[a].now
        /\ req[b].now - req[a].now < 24
        /\ RespOf(b).cached = TRUE
        /\ RespOf(b).generated_at = req[a].now

\* the record a writer leaves in the cache
EntryOf(r) == Some([resp |-> RespOf(r), cached_at |-> req[r].now])

\* C2: a call that finds an entry of age >= 24 hours (24 exactly included) is
\* not a hit: it runs the locator and the summarizer again and, when it
\* returns, returns cached=false with generated_at = its own start time and
\* has overwritten the entry; the next call within 24 hours of that start is
\* a hit carrying the new generated_at.
C2_CacheExpiry ==
    \A r \in ReqIds :
        (Started(r) /\ SawExpired(r))
        => /\ req[r].ranLocator
           /\ Returned(r) =>
                /\ req[r].ranSummarizer
                /\ RespOf(r).cached = FALSE
                /\ RespOf(r).generated_at = req[r].now
                /\ WritePos(r) > 0
                /\ LastWriter(req[r].code) = r
                     => SUMMARY_CACHE[req[r].code] = EntryOf(r)
                /\ \A b \in ReqIds :
                     ( /\ Started(b)
                       /\ LastWriterAtStart(b) = r
                       /\ req[b].now - req[r].now < 24 )
                     => /\ Returned(b)
                        /\ RespOf(b).cached = TRUE
                        /\ RespOf(b).generated_at = req[r].now

\* C2 witness: an entry exactly 24 hours old was regenerated, and a later call
\* within the new window was served the regenerated record.
C2_Witness ==
    \E r \in ReqIds, b \in ReqIds :
        /\ Returned(r)
        /\ SawExpired(r)
        /\ req[r].now - req[r].seen[1].cached_at = 24
        /\ Returned(b)
        /\ LastWriterAtStart(b) = r
        /\ req[b].now > req[r].now
        /\ RespOf(b).cached = TRUE
        /\ RespOf(b).generated_at = req[r].now

\* two requests for one code, each of which probed the cache before the other
\* stored its result, with no fresh entry to find
Overlap(a, b) ==
    /\ a # b
    /\ Started(a) /\ Started(b)
    /\ req[a].code = req[b].code
    /\ SawNoFreshEntry(a) /\ SawNoFreshEntry(b)
    /\ WritePos(a) = 0 \/ WritePos(a) > req[b].logLen
    /\ WritePos(b) = 0 \/ WritePos(b) > req[a].logLen

LaterWriter(a, b) == IF WritePos(a) > WritePos(b) THEN a ELSE b

\* C3: two overlapping requests for a code with no fresh entry both take the
\* miss path; once both have returned, both ran the locator and the
\* summarizer (each calling the backend when one is configured), both
\* returned cached=false, and unless a third request wrote since, the cache
\* holds the record of whichever of the two wrote last.
C3_UnsynchronisedPopulation ==
    \A a \in ReqIds, b \in ReqIds :
        Overlap(a, b)
        => /\ req[a].ranLocator /\ req[b].ranLocator
           /\ (Returned(a) /\ Returned(b)) =>
                /\ req[a].ranSummarizer /\ req[b].ranSummarizer
                /\ ~NotConfigured(settings)
                     => (req[a].calledBackend /\ req[b].calledBackend)
                /\ RespOf(a).cached = FALSE /\ RespOf(b).cached = FALSE
                /\ WritePos(a) > 0 /\ WritePos(b) > 0
                /\ LastWriter(req[a].code) \in {a, b}
                     => SUMMARY_CACHE[req[a].code] = EntryOf(LaterWriter(a, b))

\* C3 witness: two overlapping requests have both called the backend and
\* returned different records; the cache holds the one written last, which
\* here is the one stamped earlier.
C3_Witness ==
    \E a \in ReqIds, b \in ReqIds :
        /\ Overlap(a, b)
        /\ Returned(a) /\ Returned(b)
        /\ req[a].calledBackend /\ req[b].calledBackend
        /\ RespOf(a).bullets # RespOf(b).bullets
        /\ WritePos(a) < WritePos(b)
        /\ req[b].now < req[a].now
        /\ SUMMARY_CACHE[req[a].code] = EntryOf(b)

\* C4: get_ipo_summary has no failure path: no call ends by raising to its
\* caller, whatever its sub-operations do.
C4_NoFailurePath ==
    \A r \in ReqIds : req[r].pc # "raised"

\* a step in which request r returns a response flagged as cached
HitStep(r) ==
    /\ req[r].pc # "returned"
    /\ req'[r].pc = "returned"
    /\ req'[r].resp[1].cached

\* C11: a cache hit runs none of the locator, the summarizer and the backend
\* and leaves _SUMMARY_CACHE as it was; every stored entry keeps the flag
\* cached=false and an insertion time equal to its record's generated_at, the
\* start time of the call that wrote it; so every hit is served less than 24
\* hours after the generation of the record it carries, however many hits
\* came before.
C11_HitLeavesCache ==
    /\ [](\A r \in ReqIds :
            (Returned(r) /\ RespOf(r).cached)
            => /\ ~req[r].ranLocator
               /\ ~req[r].ranSummarizer
               /\ ~req[r].calledBackend
               /\ WritePos(r) = 0
               /\ req[r].now - RespOf(r).generated_at < 24)
    /\ [](\A code \in Codes :
            SUMMARY_CACHE[code] # None
            => /\ SUMMARY_CACHE[code][1].resp.cached = FALSE
               /\ SUMMARY_CACHE[code][1].cached_at
                    = SUMMARY_CACHE[code][1].resp.generated_at
               /\ LastWriter(code) # 0
               /\ SUMMARY_CACHE[code][1].cached_at = req[LastWriter(code)].now)
    /\ [][\A r \in ReqIds : HitStep(r) => SUMMARY_CACHE' = SUMMARY_CACHE]_vars

\* C11 witness: a record was generated, served by a hit, and then found
\* expired 24 hours or more after its generation by a third call, which ran
\* the locator.
C11_Witness ==
    \E a \in ReqIds, b \in ReqIds, c \in ReqIds :
        /\ Returned(a) /\ RespOf(a).cached = FALSE
        /\ Returned(b) /\ RespOf(b).cached = TRUE
        /\ LastWriterAtStart(b) = a
        /\ Started(c)
        /\ LastWriterAtStart(c) = a
        /\ req[b].now < req[c].now
        /\ req[c].now - req[a].now >= 24
        /\ req[c].seen = EntryOf(a)
        /\ req[c].ranLocator

\* C12: for every code the insertion time (and the generated_at of the
\* stored record, both the start time of the writing call) never decreases
\* from one cache write to the next, under any interleaving of requests.
C12_TimestampsNeverDecrease ==
    \A code \in Codes :
        \A i \in 1..(Len(writeLog[code]) - 1) :
            req[writeLog[code][i]].now <= req[writeLog[code][i + 1]].now

\* a step of request r that does not end in a return
StepWithoutReturn(r) == req'[r] # req[r] /\ req'[r].pc # "returned"

\* C13: a call that ends by raising has stored nothing: none of its steps
\* changes _SUMMARY_CACHE for any key, the entry it found (expired or absent)
\* is still there unless another call wrote since, a call for the same code
\* started with no write in between finds the same entry, and a later call
\* for the code with no fresh entry runs the locator and the summarizer
\* again and stores its record.
C13_FailureStoresNothing ==
    /\ [](\A r \in ReqIds :
            req[r].pc = "raised"
            => /\ WritePos(r) = 0
               /\ Len(writeLog[req[r].code]) = req[r].logLen
                    => SUMMARY_CACHE[req[r].code] = req[r].seen
               /\ \A b \in ReqIds :
                    (b > r /\ Started(b) /\ req[b].code = req[r].code)
                    => /\ req[b].logLen = req[r].logLen
                            => req[b].seen = req[r].seen
                       /\ SawNoFreshEntry(b)
                            => /\ req[b].ranLocator
                               /\ Returned(b)
                                    => /\ req[b].ranSummarizer
                                       /\ RespOf(b).cached = FALSE
                                       /\ WritePos(b) > 0)
    /\ [][\A r \in ReqIds :
            StepWithoutReturn(r) => SUMMARY_CACHE' = SUMMARY_CACHE]_vars

\* C13 witness: a call found an expired entry, called the backend and
\* raised; a later call for the code found the same expired entry, ran the
\* chain again and returned a record that is not flagged as cached.
C13_Witness ==
    \E r \in ReqIds, b \in ReqIds :
        /\ req[r].pc = "raised"
        /\ SawExpired(r)
        /\ b > r
        /\ req[b].code = req[r].code
        /\ req[b].seen = req[r].seen
        /\ Returned(b)
        /\ req[b].calledBackend
        /\ RespOf(b).cached = FALSE
        /\ SUMMARY_CACHE[req[b].code] = EntryOf(b)

(***************************************************************************)
(* Properties of _summarize_with_llm (checked under SpecSummarize)         *)
(***************************************************************************)
\* C5: the list returned by _summarize_with_llm holds at least 1 and at most
\* 8 bullets, whatever the code, the text and the completion.
C5_BulletCount ==
    summ.pc = "done" => (Len(summ.result) >= 1 /\ Len(summ.result) <= 8)

\* C8: with the endpoint or the API key empty, _summarize_with_llm calls no
\* backend and returns exactly one bullet, the configuration hint naming the
\* code, whatever the text.
C8_UnconfiguredFallback ==
    (summ.pc # "ready" /\ (settings.endpoint = "" \/ settings.api_key = ""))
    => /\ summ.pc = "done"
       /\ summ.called = FALSE
       /\ summ.result = <<ConfigHint(summ.code)>>

\* C8 witness: the endpoint is set but the key is not, the text is not empty,
\* and the call has returned the hint alone.
C8_Witness ==
    /\ summ.pc = "done"
    /\ settings.endpoint # "" /\ settings.api_key = ""
    /\ summ.text = <<"t">>
    /\ summ.completion # None
    /\ summ.result = <<ConfigHint(summ.code)>>

\* the post-processing as the claim words it: a line qualifies when its first
\* non-whitespace character is a glyph, and gives the line without its
\* leading glyph and the whitespace around it
ClaimedQualifies(line) == Strip(line) # <<>> /\ Head(Strip(line)) \in Glyphs
ClaimedBullet(line) == Strip(LStripSet(Strip(line), Glyphs))

RECURSIVE ClaimedBullets(_)
ClaimedBullets(lines) ==
    IF lines = <<>> THEN <<>>
    ELSE (IF ClaimedQualifies(Head(lines)) THEN <<ClaimedBullet(Head(lines))>>
          ELSE <<>>) \o ClaimedBullets(Tail(lines))

\* C10: the bullets are, in line order, the qualifying lines of the
\* completion, each without its leading glyph and surrounding whitespace, or
\* the whole trimmed completion when no line qualifies.
C10_PostProcessing ==
    (summ.pc = "done" /\ summ.called)
    => LET content == ContentOf(summ.completion)
           claimed == ClaimedBullets(SplitLines(content))
       IN  summ.result = IF claimed # <<>> THEN claimed ELSE <<Strip(content)>>

(***************************************************************************)
(* Properties of _parse_date (checked under SpecDate)                      *)
(***************************************************************************)
\* C9: _parse_date never raises: for every input string it returns a valid
\* calendar date.
C9_ParseDateNeverRaises ==
    pdate.pc # "ready"
    => /\ pdate.pc = "done"
       /\ pdate.result.kind = "date"
       /\ ValidDate(pdate.result.y, pdate.result.m, pdate.result.d)

(***************************************************************************)
(* Properties of get_latest_ipos and _parse_html (checked under SpecListing) *)
(***************************************************************************)
\* a row of at least 8 cells with a company name and a ticker, immediately
\* followed by a row of fewer than 8 cells
WellFormedPairAt(rows, i) ==
    /\ i + 1 <= Len(rows)
    /\ rows[i].ncells >= 8
    /\ NormalizeCompanyName(rows[i].name) # <<>>
    /\ rows[i].ticker # <<>>
    /\ rows[i + 1].ncells < 8

\* C6: for any sequence of rows _parse_html emits, in row order, exactly one
\* record for every well-formed pair, and every record emitted has a
\* non-empty company name and ticker.
C6_OneRecordPerPair ==
    listing.parsed.kind = "items"
    => LET rows == listing.page.rows
           items == listing.parsed.items
       IN  /\ \A i \in 1..Len(rows) :
                WellFormedPairAt(rows, i)
                => Cardinality({j \in 1..Len(items) : items[j].src = i}) = 1
           /\ \A j \in 1..(Len(items) - 1) : items[j].src < items[j + 1].src
           /\ \A j \in 1..Len(items) :
                items[j].company_name # <<>> /\ items[j].ticker # <<>>

\* C7: get_latest_ipos never propagates an error: when the fetch fails or the
\* page holds no table it returns no items and total_count 0.
C7_LatestNeverPropagates ==
    /\ listing.pc # "raised"
    /\ (listing.pc = "done"
        /\ (listing.fetch # "ok" \/ ~listing.page.has_table))
       => listing.resp = [items |-> <<>>, total_count |-> 0]

\* C14: the locator and the parser agree on one page: when _parse_html yields
\* a record whose ticker is the code and whose outline_pdf_url is u (not
\* absent), _find_pdf_url_for_code(code), having fetched the same page,
\* returns u.
C14_LocatorAgreesWithParser ==
    ( /\ listing.located # None
      /\ listing.located[1].fetched
      /\ listing.parsed.kind = "items" )
    => \A j \in 1..Len(listing.parsed.items) :
         ( /\ listing.parsed.items[j].ticker = <<Ch(listing.located[1].code)>>
           /\ listing.parsed.items[j].outline_pdf_url # None )
         => listing.located[1].url = listing.parsed.items[j].outline_pdf_url

====
